---- MODULE Spec2Model ----
(***************************************************************************)
(* Vantage Weather integration: the polling coordinator                    *)
(* (coordinator.py), the config-entry setup, unload and reload             *)
(* (__init__.py), the config and options flows (config_flow.py) and the    *)
(* sensor projections (sensor.py) over the descriptor table (const.py).    *)
(*                                                                         *)
(* Strings that the code inspects character by character (raw readings,    *)
(* dates, times) are sequences of one-character strings; JSON values are   *)
(* records tagged by "t".                                                  *)
(***************************************************************************)
EXTENDS Integers, Sequences, FiniteSets, TLC

VARIABLES
    pc,                   \* position of the config entry in async_setup_entry
    data,                 \* coordinator.data: the cached payload, or None
    last_update_success,  \* coordinator.last_update_success
    last_exception,       \* class of the exception that left the last fetch
    response,             \* the device response the last fetch consumed
    registry,             \* entry_id in hass.data[DOMAIN]
    entities,             \* sensors handed to async_add_entities
    fetching,             \* a call of _async_update_data is awaiting the device
    scheduled,            \* the coordinator's refresh timer is armed
    polled,               \* the sensor whose state the host reads
    read,                 \* what that read gave: native_value, or NotRead
    options,              \* entry.options of the config entry
    update_interval,      \* seconds of coordinator.update_interval; 0: none built
    config_entries,       \* the config entries the config flow has created
    flow_result           \* how the last user step of the config flow ended

\* what the config flow works on
flowvars == <<config_entries, flow_result>>

vars == <<pc, data, last_update_success, last_exception, response, registry,
          entities, fetching, scheduled, polled, read, options, update_interval,
          flowvars>>

(***************************************************************************)
(* Bounds of the model.                                                    *)
(***************************************************************************)
MaxStrLen == 4      \* longest raw reading string enumerated
MaxEntries == 3     \* most config entries the config flow creates

(***************************************************************************)
(* const.py                                                                *)
(***************************************************************************)
Descriptor(u, dc, sc) == [unit |-> u, device_class |-> dc, state_class |-> sc]

SENSOR_TYPES ==
       "tempin"    :> Descriptor("FAHRENHEIT", "temperature", "measurement")
    @@ "tempout"   :> Descriptor("FAHRENHEIT", "temperature", "measurement")
    @@ "heat"      :> Descriptor("FAHRENHEIT", "temperature", "measurement")
    @@ "chill"     :> Descriptor("FAHRENHEIT", "temperature", "measurement")
    @@ "humin"     :> Descriptor("PERCENTAGE", "humidity", "measurement")
    @@ "humout"    :> Descriptor("PERCENTAGE", "humidity", "measurement")
    @@ "cdew"      :> Descriptor("FAHRENHEIT", "temperature", "measurement")
    @@ "windspd"   :> Descriptor("MILES_PER_HOUR", "wind_speed", "measurement")
    @@ "winddir"   :> Descriptor("DEGREE", "None", "measurement")
    @@ "windavg2"  :> Descriptor("MILES_PER_HOUR", "wind_speed", "measurement")
    @@ "windavg10" :> Descriptor("MILES_PER_HOUR", "wind_speed", "measurement")
    @@ "gust"      :> Descriptor("MILES_PER_HOUR", "wind_speed", "measurement")
    @@ "gustdir"   :> Descriptor("DEGREE", "None", "measurement")
    @@ "bar"       :> Descriptor("INHG", "pressure", "measurement")
    @@ "rainr"     :> Descriptor("None", "precipitation_intensity", "measurement")
    @@ "raind"     :> Descriptor("INCHES", "precipitation", "total_increasing")
    @@ "storm"     :> Descriptor("INCHES", "precipitation", "total_increasing")
    @@ "rainmon"   :> Descriptor("INCHES", "precipitation", "total_increasing")
    @@ "rainyear"  :> Descriptor("INCHES", "precipitation", "total_increasing")
    @@ "rain1h"    :> Descriptor("INCHES", "precipitation", "total")
    @@ "rain24"    :> Descriptor("INCHES", "precipitation", "total")
    @@ "solar"     :> Descriptor("WATTS_PER_SQUARE_METER", "irradiance", "measurement")
    @@ "uv"        :> Descriptor("None", "None", "measurement")

CONF_SCAN_INTERVAL == "scan_interval"
DEFAULT_SCAN_INTERVAL == 60

SENSOR_KEY_LAST_UPDATE == "last_update"
SENSOR_KEY_BARO_TREND == "baro_trend"

StandardKeys == DOMAIN SENSOR_TYPES
Sensors == StandardKeys \cup {SENSOR_KEY_BARO_TREND, SENSOR_KEY_LAST_UPDATE}

(***************************************************************************)
(* JSON values.  A member of an object is Absent when the key is missing.  *)
(* A list or string records in "has" which keys `key in value` finds.      *)
(***************************************************************************)
None == [t |-> "None"]
Absent == [t |-> "absent"]
JNull == [t |-> "null"]
JStr(chars) == [t |-> "str", s |-> chars]
JInt(n) == [t |-> "int", n |-> n]
JBigInt == [t |-> "bigint"]          \* an integer literal beyond the float range
JBool(b) == [t |-> "bool", b |-> b]
JList(keys) == [t |-> "list", has |-> keys]
JText(keys) == [t |-> "text", has |-> keys]
JFloat(m, e) == [t |-> "float", m |-> m, e |-> e]   \* the number m / 10^e
InvalidJson == [t |-> "invalid"]     \* a body that is not JSON
JObject(m) == [t |-> "object", m |-> m]
EmptyMap == <<>>

(***************************************************************************)
(* Python's `k in v` and `v.get(k, default)` on a decoded JSON value: the  *)
(* exception class when the operation is not defined for the value's type. *)
(***************************************************************************)
Contains(v, k) ==
    CASE v.t = "object" -> IF k \in DOMAIN v.m THEN "yes" ELSE "no"
      [] v.t \in {"list", "text"} -> IF k \in v.has THEN "yes" ELSE "no"
      [] OTHER -> "TypeError"

HasGet(v) == v.t = "object"

Get(v, k, default) == IF k \in DOMAIN v.m THEN v.m[k] ELSE default

(***************************************************************************)
(* Device responses: what session.get gives within the 10 s deadline.      *)
(***************************************************************************)
StatusCodes == {200, 401, 404, 500}

TempoutGood == JStr(<<"7", "2", ".", "5">>)
Placeholder == JStr(<<"-", "-", "-">>)
DateGood == JStr(<<"2", "0", "2", "4", "/", "0", "3", "/", "0", "5">>)
TimeGood == JStr(<<"1", "4", ":", "3", "0", ":", "0", "0">>)

RtdFull ==
    JObject("tempout" :> TempoutGood @@ "bartr" :> JStr(<<"2", "0">>)
            @@ "date" :> DateGood @@ "time" :> TimeGood)
RtdSparse ==
    JObject("tempout" :> Placeholder @@ "bartr" :> JStr(<<"1", "7">>)
            @@ "date" :> DateGood)

InfoF == JObject("unitT" :> JStr(<<"F">>) @@ "unitW" :> JStr(<<"m", "p", "h">>))
InfoC == JObject("unitT" :> JStr(<<"C">>))

RtdMembers == {Absent, JNull, RtdFull, RtdSparse}
InfoMembers == {Absent, JNull, InfoF, InfoC}

Members(r, i) ==
    LET mr == IF r = Absent THEN EmptyMap ELSE ("rtd" :> r)
        mi == IF i = Absent THEN EmptyMap ELSE ("info" :> i)
    IN  mr @@ mi

Bodies ==
    {InvalidJson}
    \cup {JNull, JInt(0), JList({}), JList({"rtd", "info"}), JText({"rtd", "info"})}
    \cup {JObject(Members(r, i)) : r \in RtdMembers, i \in InfoMembers}

NoResponse == [kind |-> "none"]
Responses ==
    {[kind |-> k] : k \in {"connect_error", "client_error", "timeout"}}
    \cup {[kind |-> "http", status |-> st, body |-> b] : st \in StatusCodes, b \in Bodies}

(***************************************************************************)
(* coordinator.py, _async_update_data.  TryBody is the body of the try     *)
(* statement: the payload it returns or the exception class it raises.     *)
(***************************************************************************)
Raise(exc) == [ret |-> FALSE, exc |-> exc]
Return(v) == [ret |-> TRUE, data |-> v]

\* ValidateKeys with the check of `info` forgotten
ValidateKeysRtdOnly(body) ==
    LET hasRtd == Contains(body, "rtd")
    IN  IF hasRtd = "TypeError" THEN Raise("TypeError")
        ELSE IF hasRtd = "no" THEN Raise("UpdateFailed")
        ELSE Return(body)

ValidateKeys(body) ==
    LET hasRtd == Contains(body, "rtd")
        hasInfo == Contains(body, "info")
    IN  IF hasRtd = "TypeError" THEN Raise("TypeError")
        ELSE IF hasRtd = "no" THEN Raise("UpdateFailed")
        ELSE IF hasInfo = "TypeError" THEN Raise("TypeError")
        ELSE IF hasInfo = "no" THEN Raise("UpdateFailed")
        ELSE Return(body)

LogDeviceUnits(body) ==
    IF ~HasGet(body) THEN Raise("AttributeError")
    ELSE IF ~HasGet(Get(body, "info", JObject(EmptyMap))) THEN Raise("AttributeError")
    ELSE Return(body)

\* TryBody with `response.raise_for_status()` forgotten
TryBodyNoRaiseForStatus(resp) ==
    IF resp.kind = "connect_error" THEN Raise("ClientConnectorError")
    ELSE IF resp.kind = "client_error" THEN Raise("ClientError")
    ELSE IF resp.kind = "timeout" THEN Raise("TimeoutError")
    ELSE IF resp.status = 401 THEN Raise("ConfigEntryAuthFailed")
    ELSE IF resp.body = InvalidJson THEN Raise("JSONDecodeError")
    ELSE IF ~ValidateKeys(resp.body).ret THEN ValidateKeys(resp.body)
    ELSE LogDeviceUnits(resp.body)

TryBody(resp) ==
    IF resp.kind = "connect_error" THEN Raise("ClientConnectorError")
    ELSE IF resp.kind = "client_error" THEN Raise("ClientError")
    ELSE IF resp.kind = "timeout" THEN Raise("TimeoutError")
    ELSE IF resp.status = 401 THEN Raise("ConfigEntryAuthFailed")
    ELSE IF resp.status >= 400 THEN Raise("ClientResponseError")
    ELSE IF resp.body = InvalidJson THEN Raise("JSONDecodeError")
    ELSE IF ~ValidateKeys(resp.body).ret THEN ValidateKeys(resp.body)
    ELSE LogDeviceUnits(resp.body)

\* The except clauses, in order; ClientResponseError is a ClientError, and
\* every other class raised in the try body is an Exception.
ExceptClause(exc) ==
    CASE exc = "ClientConnectorError" -> "ClientConnectorError"
      [] exc \in {"ClientError", "ClientResponseError"} -> "ClientError"
      [] exc = "TimeoutError" -> "TimeoutError"
      [] OTHER -> "Exception"

Handle(exc) == [ok |-> FALSE, exc |-> "UpdateFailed", clause |-> ExceptClause(exc)]

UpdateData(resp) ==
    LET r == TryBody(resp)
    IN  IF r.ret THEN [ok |-> TRUE, data |-> r.data] ELSE Handle(r.exc)


(***************************************************************************)
(* Python's str.strip() and float() on a raw reading.  float() accepts a   *)
(* string that, once stripped, is an optional sign followed by digits with *)
(* at most one point and at least one digit (exponent, "inf", "nan" and    *)
(* "_" forms need characters outside the enumerated alphabet).  An int     *)
(* beyond the float range raises OverflowError.                            *)
(***************************************************************************)
Whitespace == {" "}
Digits == {"0", "1", "2", "3", "4", "5", "6", "7", "8", "9"}
DigitVal ==
    "0" :> 0 @@ "1" :> 1 @@ "2" :> 2 @@ "3" :> 3 @@ "4" :> 4
    @@ "5" :> 5 @@ "6" :> 6 @@ "7" :> 7 @@ "8" :> 8 @@ "9" :> 9

RECURSIVE LStrip(_)
LStrip(s) ==
    IF s # <<>> /\ Head(s) \in Whitespace THEN LStrip(Tail(s)) ELSE s

RECURSIVE RStrip(_)
RStrip(s) ==
    IF s # <<>> /\ s[Len(s)] \in Whitespace THEN RStrip(SubSeq(s, 1, Len(s) - 1)) ELSE s

Strip(s) == RStrip(LStrip(s))

RECURSIVE DigitsToInt(_)
DigitsToInt(s) ==
    IF s = <<>> THEN 0 ELSE 10 * DigitsToInt(SubSeq(s, 1, Len(s) - 1)) + DigitVal[s[Len(s)]]

RECURSIVE Normalise(_, _)
Normalise(m, e) ==
    IF e > 0 /\ m % 10 = 0 THEN Normalise(m \div 10, e - 1) ELSE JFloat(m, e)

Converted(v) == [ok |-> TRUE, v |-> v]
Failed(exc) == [ok |-> FALSE, exc |-> exc]

FloatOfString(s) ==
    LET t == Strip(s)
        signed == t # <<>> /\ t[1] \in {"-", "+"}
        body == IF signed THEN Tail(t) ELSE t
        points == {i \in 1..Len(body) : body[i] = "."}
        digits == SelectSeq(body, LAMBDA c : c # ".")
        e == IF points = {} THEN 0 ELSE Len(body) - (CHOOSE i \in points : TRUE)
        m == DigitsToInt(digits)
    IN  IF /\ \A i \in 1..Len(body) : body[i] \in Digits \cup {"."}
           /\ Cardinality(points) <= 1
           /\ digits # <<>>
        THEN Converted(Normalise(IF signed /\ t[1] = "-" THEN 0 - m ELSE m, e))
        ELSE Failed("ValueError")

Float(value) ==
    CASE value.t = "str" -> FloatOfString(value.s)
      [] value.t = "int" -> Converted(JFloat(value.n, 0))
      [] value.t = "float" -> Converted(Normalise(value.m, value.e))
      [] value.t = "bool" -> Converted(JFloat(IF value.b THEN 1 ELSE 0, 0))
      [] value.t = "bigint" -> Failed("OverflowError")
      [] OTHER -> Failed("TypeError")


(***************************************************************************)
(* sensor.py: availability and the three projections (native_value).       *)
(* A projection gives None, a value, or Raised(exc) when an exception      *)
(* leaves the property.                                                    *)
(***************************************************************************)
Raised(exc) == [t |-> "raise", exc |-> exc]
Label(text) == [t |-> "label", v |-> text]

\* CoordinatorEntity.available, which the sensors' `super().available` reads
CoordinatorEntityAvailable == last_update_success

\* available without the `super().available` conjunct
availableIgnoringHealth ==
    /\ data # None
    /\ Contains(data, "rtd") = "yes"

available ==
    /\ CoordinatorEntityAvailable
    /\ data # None
    /\ Contains(data, "rtd") = "yes"

\* NativeUnit following the display unit the device reports in `info`
NativeUnitFromDevice(key) ==
    LET d == SENSOR_TYPES[key]
        unitT == IF data # None /\ Contains(data, "info") = "yes"
                 THEN Get(data.m["info"], "unitT", None) ELSE None
    IN  IF d.device_class = "temperature" /\ unitT = JStr(<<"C">>)
        THEN "CELSIUS"
        ELSE IF d.device_class = "precipitation_intensity" /\ d.unit = "None"
        THEN "INCHES_PER_HOUR"
        ELSE d.unit

\* VantageWeatherStandardSensor.__init__: the unit and device class kept
NativeUnit(key) ==
    LET d == SENSOR_TYPES[key]
    IN  IF d.device_class = "precipitation_intensity" /\ d.unit = "None"
        THEN "INCHES_PER_HOUR"
        ELSE d.unit

DeviceClass(key) == SENSOR_TYPES[key].device_class

NumericClasses ==
    {"temperature", "humidity", "pressure", "wind_speed", "precipitation",
     "precipitation_intensity", "irradiance"}

is_numeric_conversion_needed(key) ==
    \/ DeviceClass(key) \in NumericClasses
    \/ (NativeUnit(key) = "DEGREE" /\ DeviceClass(key) = "None")
    \/ (key = "uv" /\ NativeUnit(key) = "None")

IsPlaceholder(value) ==
    value.t = "str" /\ (Strip(value.s) = <<"-", "-", "-">> \/ Strip(value.s) = <<>>)

ConvertReading(value) ==
    LET f == Float(value)
    IN  IF f.ok THEN f.v
        ELSE IF f.exc \in {"ValueError", "TypeError"} THEN None
        ELSE Raised(f.exc)

\* StandardNativeValue with the `key not in rtd_data` check forgotten: the
\* subscript raises KeyError on a missing key
StandardNativeValueNoKeyCheck(key) ==
    IF ~available THEN None
    ELSE LET rtd_data == Get(data, "rtd", JObject(EmptyMap))
         IN  IF rtd_data.t # "object" THEN Raised("TypeError")
             ELSE IF key \notin DOMAIN rtd_data.m THEN Raised("KeyError")
             ELSE LET value == rtd_data.m[key]
                  IN  IF value = JNull THEN None
                      ELSE IF IsPlaceholder(value) THEN None
                      ELSE IF is_numeric_conversion_needed(key) THEN ConvertReading(value)
                      ELSE value

StandardNativeValue(key) ==
    IF ~available THEN None
    ELSE LET rtd_data == Get(data, "rtd", JObject(EmptyMap))
             found == Contains(rtd_data, key)
         IN  IF found = "TypeError" THEN Raised("TypeError")
             ELSE IF found = "no" THEN None
             ELSE IF rtd_data.t # "object" THEN Raised("TypeError")
             ELSE LET value == rtd_data.m[key]
                  IN  IF value = JNull THEN None
                      ELSE IF IsPlaceholder(value) THEN None
                      ELSE IF is_numeric_conversion_needed(key) THEN ConvertReading(value)
                      ELSE value

TrendLabel(trend_code) ==
    IF trend_code = JFloat(0 - 60, 0) THEN Label("Falling Rapidly")
    ELSE IF trend_code = JFloat(0 - 20, 0) THEN Label("Falling Slowly")
    ELSE IF trend_code = JFloat(0, 0) THEN Label("Steady")
    ELSE IF trend_code = JFloat(20, 0) THEN Label("Rising Slowly")
    ELSE IF trend_code = JFloat(60, 0) THEN Label("Rising Rapidly")
    ELSE Label("---")

BaroTrendNativeValue ==
    IF ~available THEN None
    ELSE LET rtd_data == Get(data, "rtd", JObject(EmptyMap))
             found == Contains(rtd_data, "bartr")
         IN  IF found = "TypeError" THEN Raised("TypeError")
             ELSE IF found = "no" THEN None
             ELSE IF rtd_data.t # "object" THEN Raised("TypeError")
             ELSE LET f == Float(rtd_data.m["bartr"])
                  IN  IF f.ok THEN TrendLabel(f.v)
                      ELSE IF f.exc \in {"ValueError", "TypeError"} THEN Label("Unknown")
                      ELSE Raised(f.exc)


(***************************************************************************)
(* datetime.strptime(text, "%Y/%m/%d %H:%M:%S").  Each directive is the    *)
(* regular expression _strptime compiles it to; a field matcher gives the  *)
(* set of <<value, next position>> it can match at position i.  A blank in *)
(* the format matches one or more whitespace characters, and the whole     *)
(* text must be consumed.  The datetime constructor then rejects year 0,   *)
(* a day beyond the month's length and second 60 or 61.                    *)
(***************************************************************************)
IsDigitAt(s, i) == i <= Len(s) /\ s[i] \in Digits

TwoDigitsAt(s, i) ==
    IF IsDigitAt(s, i) /\ IsDigitAt(s, i + 1)
    THEN {<<10 * DigitVal[s[i]] + DigitVal[s[i + 1]], i + 2>>}
    ELSE {}

OneDigitAt(s, i) ==
    IF IsDigitAt(s, i) THEN {<<DigitVal[s[i]], i + 1>>} ELSE {}

\* %Y: \d\d\d\d
YearAt(s, i) ==
    IF \A j \in i..(i + 3) : IsDigitAt(s, j)
    THEN {<<DigitsToInt(SubSeq(s, i, i + 3)), i + 4>>}
    ELSE {}

\* %m: 1[0-2]|0[1-9]|[1-9]
MonthAt(s, i) ==
    {p \in TwoDigitsAt(s, i) : p[1] \in 1..12}
    \cup {p \in OneDigitAt(s, i) : p[1] \in 1..9}

\* %d: 3[01]|[12]\d|0[1-9]|[1-9]| [1-9]
DayAt(s, i) ==
    {p \in TwoDigitsAt(s, i) : p[1] \in 1..31}
    \cup {p \in OneDigitAt(s, i) : p[1] \in 1..9}
    \cup (IF i <= Len(s) /\ s[i] = " "
          THEN {p \in OneDigitAt(s, i + 1) : p[1] \in 1..9}
          ELSE {})

\* %H: 2[0-3]|[0-1]\d|\d
HourAt(s, i) ==
    {p \in TwoDigitsAt(s, i) : p[1] \in 0..23} \cup OneDigitAt(s, i)

\* %M: [0-5]\d|\d
MinuteAt(s, i) ==
    {p \in TwoDigitsAt(s, i) : p[1] \in 0..59} \cup OneDigitAt(s, i)

\* %S: 6[0-1]|[0-5]\d|\d
SecondAt(s, i) ==
    {p \in TwoDigitsAt(s, i) : p[1] \in 0..61} \cup OneDigitAt(s, i)

LiteralAt(s, i, c) == IF i <= Len(s) /\ s[i] = c THEN {i + 1} ELSE {}

\* \s+
BlanksAt(s, i) ==
    {j \in (i + 1)..(Len(s) + 1) : \A k \in i..(j - 1) : s[k] \in Whitespace}

IsLeap(y) == (y % 4 = 0 /\ y % 100 # 0) \/ y % 400 = 0

DaysInMonth(y, m) ==
    IF m = 2 THEN (IF IsLeap(y) THEN 29 ELSE 28)
    ELSE IF m \in {4, 6, 9, 11} THEN 30
    ELSE 31

DateTime(y, mo, d, h, mi, sec) ==
    [t |-> "datetime", year |-> y, month |-> mo, day |-> d,
     hour |-> h, minute |-> mi, second |-> sec, tz |-> "local"]

\* the separators and the fields of the format, by directive
SepAt(sep, s, i) ==
    IF sep = " " THEN BlanksAt(s, i) ELSE LiteralAt(s, i, sep)

FieldAt(directive, s, i) ==
    CASE directive = "%m" -> MonthAt(s, i)
      [] directive = "%d" -> DayAt(s, i)
      [] directive = "%H" -> HourAt(s, i)
      [] directive = "%M" -> MinuteAt(s, i)
      [] directive = "%S" -> SecondAt(s, i)

\* One more directive: after the separator, the field; a partial match is
\* <<the values so far, the next position>>.
Extend(partial, sep, directive, s) ==
    UNION {{<<Append(p[1], f[1]), f[2]>> :
                f \in UNION {FieldAt(directive, s, j) : j \in SepAt(sep, s, p[2])}}
           : p \in partial}

Matches(s) ==
    LET year == {<<<<y[1]>>, y[2]>> : y \in YearAt(s, 1)}
        month == Extend(year, "/", "%m", s)
        day == Extend(month, "/", "%d", s)
        hour == Extend(day, " ", "%H", s)
        minute == Extend(hour, ":", "%M", s)
        second == Extend(minute, ":", "%S", s)
    IN  {DateTime(p[1][1], p[1][2], p[1][3], p[1][4], p[1][5], p[1][6]) :
            p \in {q \in second : q[2] = Len(s) + 1}}

strptime(s) ==
    LET ok == {dt \in Matches(s) :
                  /\ dt.year >= 1
                  /\ dt.day <= DaysInMonth(dt.year, dt.month)
                  /\ dt.second <= 59}
    IN  IF ok = {} THEN Failed("ValueError")
        ELSE Converted(CHOOSE dt \in ok : TRUE)


\* str(value) as the f-string formats it: a string as it is, an int in
\* decimal, anything else a text that starts with no digit.
RECURSIVE NatToChars(_)
NatToChars(n) ==
    LET d == CHOOSE c \in Digits : DigitVal[c] = n % 10
    IN  IF n < 10 THEN <<d>> ELSE Append(NatToChars(n \div 10), d)

Format(value) ==
    CASE value.t = "str" -> value.s
      [] value.t = "int" ->
            IF value.n < 0 THEN <<"-">> \o NatToChars(0 - value.n) ELSE NatToChars(value.n)
      [] OTHER -> <<"<", value.t, ">">>

\* Python truthiness of a value read with dict.get (None when missing)
Truthy(value) ==
    CASE value = None -> FALSE
      [] value.t = "null" -> FALSE
      [] value.t = "str" -> value.s # <<>>
      [] value.t = "int" -> value.n # 0
      [] value.t = "float" -> value.m # 0
      [] value.t = "bool" -> value.b
      [] value.t \in {"list", "text"} -> value.has # {}
      [] value.t = "object" -> DOMAIN value.m # {}
      [] OTHER -> TRUE

\* LastUpdateNativeValue with the `except ValueError` clause forgotten
LastUpdateNativeValueNoExcept ==
    IF ~available THEN None
    ELSE LET rtd_data == Get(data, "rtd", JObject(EmptyMap))
         IN  IF ~HasGet(rtd_data) THEN Raised("AttributeError")
             ELSE LET date_str == Get(rtd_data, "date", None)
                      time_str == Get(rtd_data, "time", None)
                  IN  IF Truthy(date_str) /\ Truthy(time_str)
                      THEN LET naive_dt == strptime(Format(date_str) \o <<" ">> \o Format(time_str))
                           IN  IF naive_dt.ok THEN naive_dt.v ELSE Raised(naive_dt.exc)
                      ELSE None

LastUpdateNativeValue ==
    IF ~available THEN None
    ELSE LET rtd_data == Get(data, "rtd", JObject(EmptyMap))
         IN  IF ~HasGet(rtd_data) THEN Raised("AttributeError")
             ELSE LET date_str == Get(rtd_data, "date", None)
                      time_str == Get(rtd_data, "time", None)
                  IN  IF Truthy(date_str) /\ Truthy(time_str)
                      THEN LET naive_dt == strptime(Format(date_str) \o <<" ">> \o Format(time_str))
                           IN  IF naive_dt.ok THEN naive_dt.v ELSE None
                      ELSE None

NativeValue(sensor) ==
    CASE sensor = SENSOR_KEY_BARO_TREND -> BaroTrendNativeValue
      [] sensor = SENSOR_KEY_LAST_UPDATE -> LastUpdateNativeValue
      [] OTHER -> StandardNativeValue(sensor)


(***************************************************************************)
(* __init__.py, async_setup_entry, and the refresh protocol of the         *)
(* DataUpdateCoordinator base class that coordinator.py extends: a fetch   *)
(* that returns replaces coordinator.data; a fetch that raises leaves it   *)
(* and clears last_update_success; the timer is armed again after each     *)
(* refresh unless authentication failed.                                   *)
(***************************************************************************)
NotRead == [t |-> "not_read"]

\* no step of the config flow has run
NoFlow == [type |-> "none"]

\* the coordinator's fields after one call of _async_update_data
Refreshed(resp) ==
    LET r == UpdateData(resp)
    IN  [data |-> IF r.ok THEN r.data ELSE data,
         last_update_success |-> r.ok,
         last_exception |-> IF r.ok THEN "none" ELSE r.exc]

\* line 26: entry.options.get(CONF_SCAN_INTERVAL, DEFAULT_SCAN_INTERVAL)
ScanInterval ==
    IF CONF_SCAN_INTERVAL \in DOMAIN options
    THEN options[CONF_SCAN_INTERVAL]
    ELSE DEFAULT_SCAN_INTERVAL

\* lines 23-34: the coordinator is built with that interval and the first
\* refresh awaited
SetupEntry ==
    /\ pc \in {"not_loaded", "setup_retry"}
    /\ pc' = "first_refresh"
    /\ data' = None
    /\ last_update_success' = TRUE
    /\ last_exception' = "none"
    /\ response' = NoResponse
    /\ fetching' = TRUE
    /\ scheduled' = FALSE
    /\ update_interval' = ScanInterval
    /\ UNCHANGED <<registry, entities, polled, read, options, flowvars>>

\* FirstRefreshDone with the plain async_refresh(), which does not raise,
\* in place of async_config_entry_first_refresh()
FirstRefreshDoneNoAbort ==
    /\ pc = "first_refresh"
    /\ fetching
    /\ \E resp \in Responses :
          LET c == Refreshed(resp)
          IN  /\ response' = resp
              /\ data' = c.data
              /\ last_update_success' = c.last_update_success
              /\ last_exception' = c.last_exception
              /\ pc' = "forward"
              /\ registry' = TRUE
    /\ fetching' = FALSE
    /\ UNCHANGED <<entities, scheduled, polled, read,
                   options, update_interval, flowvars>>

\* line 34 returns or raises; line 36 registers the coordinator
FirstRefreshDone ==
    /\ pc = "first_refresh"
    /\ fetching
    /\ \E resp \in Responses :
          LET c == Refreshed(resp)
          IN  /\ response' = resp
              /\ data' = c.data
              /\ last_update_success' = c.last_update_success
              /\ last_exception' = c.last_exception
              /\ pc' = IF c.last_update_success THEN "forward" ELSE "setup_retry"
              /\ registry' = c.last_update_success
    /\ fetching' = FALSE
    /\ UNCHANGED <<entities, scheduled, polled, read,
                   options, update_interval, flowvars>>

\* line 38: sensor.async_setup_entry adds the entities, whose listeners
\* arm the refresh timer, and line 41 registers the update listener; or the
\* forward raises and async_setup_entry ends there, nothing undone
ForwardEntrySetups ==
    /\ pc = "forward"
    /\ \E forwarded \in BOOLEAN :
          IF forwarded
          THEN /\ pc' = "loaded"
               /\ entities' = Sensors
               /\ scheduled' = TRUE
          ELSE /\ pc' = "setup_error"
               /\ UNCHANGED <<entities, scheduled>>
    /\ UNCHANGED <<data, last_update_success, last_exception, response, registry,
                   fetching, polled, read, options, update_interval, flowvars>>

\* the refresh timer fires
Tick ==
    /\ pc = "loaded"
    /\ scheduled
    /\ ~fetching
    /\ scheduled' = FALSE
    /\ fetching' = TRUE
    /\ UNCHANGED <<pc, data, last_update_success, last_exception, response, registry,
                   entities, polled, read,
                   options, update_interval, flowvars>>

\* a periodic fetch returns or raises
RefreshDone ==
    /\ pc = "loaded"
    /\ fetching
    /\ \E resp \in Responses :
          LET c == Refreshed(resp)
          IN  /\ response' = resp
              /\ data' = c.data
              /\ last_update_success' = c.last_update_success
              /\ last_exception' = c.last_exception
              /\ scheduled' = (c.last_exception # "ConfigEntryAuthFailed")
    /\ fetching' = FALSE
    /\ UNCHANGED <<pc, registry, entities, polled, read,
                   options, update_interval, flowvars>>

\* async_unload_entry: async_unload_platforms removes the entities, and with
\* the last listener gone the coordinator's timer is cancelled; line 49 pops
\* the coordinator when the platforms unloaded.  The popped coordinator is
\* referenced by nothing: what its fetch in flight still does reaches no
\* variable of this model.
AsyncUnloadEntry(unload_ok) ==
    /\ IF unload_ok
       THEN /\ pc' = "not_loaded"
            /\ registry' = FALSE
            /\ entities' = {}
            /\ scheduled' = FALSE
            /\ fetching' = FALSE
       ELSE /\ pc' = "failed_unload"
            /\ UNCHANGED <<registry, entities, scheduled, fetching>>
    /\ UNCHANGED <<data, last_update_success, last_exception, response, polled,
                   read, update_interval, flowvars>>

\* the host unloads the loaded entry
UnloadEntry ==
    /\ pc = "loaded"
    /\ \E unload_ok \in BOOLEAN : AsyncUnloadEntry(unload_ok)
    /\ UNCHANGED options

\* config_flow.py, async_step_init: the scan-interval field of the options
\* form and the values a user may enter into it
SCAN_INTERVAL_MIN == 10
SCAN_INTERVAL_MAX == 3600

Submitted ==
    {SCAN_INTERVAL_MIN - 1, SCAN_INTERVAL_MIN, 300, SCAN_INTERVAL_MAX,
     SCAN_INTERVAL_MAX + 1}

SelectorAccepts(seconds) ==
    seconds >= SCAN_INTERVAL_MIN /\ seconds <= SCAN_INTERVAL_MAX

\* options_update_listener, which line 41 of __init__.py registers once the
\* platforms are forwarded: async_reload unloads the entry; the setup that
\* follows is SetupEntry
OptionsUpdateListener ==
    \E unload_ok \in BOOLEAN : AsyncUnloadEntry(unload_ok)

\* async_step_init with user input: the input the form accepted is saved as
\* entry.options, and the update listener, if registered, runs
SaveOptions ==
    \E seconds \in Submitted :
        /\ SelectorAccepts(seconds)
        /\ options' = (CONF_SCAN_INTERVAL :> seconds)
        /\ IF pc = "loaded"
           THEN OptionsUpdateListener
           ELSE UNCHANGED <<pc, data, last_update_success, last_exception,
                            response, registry, entities, fetching, scheduled,
                            polled, read, update_interval, flowvars>>

Init ==
    /\ pc = "not_loaded"
    /\ data = None
    /\ last_update_success = TRUE
    /\ last_exception = "none"
    /\ response = NoResponse
    /\ registry = FALSE
    /\ entities = {}
    /\ fetching = FALSE
    /\ scheduled = FALSE
    /\ polled = "none"
    /\ read = NotRead
    /\ options = EmptyMap
    /\ update_interval = 0
    /\ config_entries = <<>>
    /\ flow_result = NoFlow

Next ==
    \/ SetupEntry
    \/ FirstRefreshDone
    \/ ForwardEntrySetups
    \/ Tick
    \/ RefreshDone
    \/ UnloadEntry
    \/ SaveOptions

Spec == Init /\ [][Next]_vars


(***************************************************************************)
(* config_flow.py: the user step of the config flow.  A user submits a     *)
(* host; validate_host_connection asks the device at that host and derives *)
(* the unique id and the title; the flow base class keeps the unique id    *)
(* and aborts when a config entry already has it.                          *)
(***************************************************************************)
Hosts == {<<"h", "1">>, <<"h", "2">>}

\* f"vantage_weather_{host}"
HostUniqueId(host) ==
    <<"v", "a", "n", "t", "a", "g", "e", "_", "w", "e", "a", "t", "h", "e", "r", "_">>
        \o host

DEVICE_WIFI_LOGGER_ID_KEY == "wid"
DEVICE_STATION_NAME_KEY == "stnname"

\* values of info.wid a device may send
Wids ==
    {Absent, JNull, JStr(<<>>), JStr(<<"A">>), JStr(<<"7">>), JInt(0), JInt(7),
     JStr(HostUniqueId(<<"h", "1">>))}

InfoWith(wid, stnname) ==
    JObject((IF wid = Absent THEN EmptyMap ELSE (DEVICE_WIFI_LOGGER_ID_KEY :> wid))
            @@ (IF stnname = Absent THEN EmptyMap
                ELSE (DEVICE_STATION_NAME_KEY :> stnname)))

FlowBodies ==
    {InvalidJson, JNull, JList({}), JObject(EmptyMap), JObject("info" :> JNull),
     JObject("info" :> InfoWith(JStr(<<"A">>), JStr(<<"S">>)))}
    \cup {JObject("info" :> InfoWith(wid, Absent)) : wid \in Wids}

FlowResponses ==
    {[kind |-> k] : k \in {"connect_error", "client_error", "timeout"}}
    \cup {[kind |-> "http", status |-> st, body |-> InvalidJson] :
             st \in StatusCodes \ {200}}
    \cup {[kind |-> "http", status |-> 200, body |-> b] : b \in FlowBodies}

\* lines 46-66: the body of the try statement
ValidateTryBody(host, resp) ==
    IF resp.kind = "connect_error" THEN Raise("ClientConnectorError")
    ELSE IF resp.kind = "client_error" THEN Raise("ClientError")
    ELSE IF resp.kind = "timeout" THEN Raise("TimeoutError")
    ELSE IF resp.status >= 400 THEN Raise("ClientResponseError")
    ELSE IF resp.body = InvalidJson THEN Raise("JSONDecodeError")
    ELSE IF ~HasGet(resp.body) THEN Raise("AttributeError")
    ELSE LET info_data == Get(resp.body, "info", JObject(EmptyMap))
         IN  IF ~HasGet(info_data) THEN Raise("AttributeError")
             ELSE LET unique_id_val == Get(info_data, DEVICE_WIFI_LOGGER_ID_KEY, None)
                      title_val == Get(info_data, DEVICE_STATION_NAME_KEY, None)
                  IN  Return([unique_id |-> IF Truthy(unique_id_val)
                                            THEN Format(unique_id_val)
                                            ELSE HostUniqueId(host),
                              title |-> IF Truthy(title_val)
                                        THEN Format(title_val)
                                        ELSE host])

\* lines 69-80: every except clause raises ConnectionError
validate_host_connection(host, resp) ==
    LET r == ValidateTryBody(host, resp)
    IN  IF r.ret THEN r ELSE Raise("ConnectionError")

\* _abort_if_unique_id_configured of the flow base class
UniqueIdConfigured(unique_id) ==
    \E i \in DOMAIN config_entries : config_entries[i].unique_id = unique_id

FlowResult(type, reason, host, resp) ==
    [type |-> type, reason |-> reason, host |-> host, response |-> resp]

\* async_step_user without the call of _abort_if_unique_id_configured
async_step_user_NoAbortCheck ==
    /\ Len(config_entries) < MaxEntries
    /\ \E host \in Hosts, resp \in FlowResponses :
          LET r == validate_host_connection(host, resp)
          IN  IF ~r.ret
              THEN /\ flow_result' = FlowResult("form", "cannot_connect", host, resp)
                   /\ UNCHANGED config_entries
              ELSE /\ flow_result' = FlowResult("create_entry", "none", host, resp)
                   /\ config_entries' =
                         Append(config_entries,
                                [unique_id |-> r.data.unique_id,
                                 title |-> r.data.title, host |-> host])
    /\ UNCHANGED <<pc, data, last_update_success, last_exception, response, registry,
                   entities, fetching, scheduled, polled, read, options,
                   update_interval>>

\* async_step_user with user input, lines 92-118
async_step_user ==
    /\ Len(config_entries) < MaxEntries
    /\ \E host \in Hosts, resp \in FlowResponses :
          LET r == validate_host_connection(host, resp)
          IN  IF ~r.ret
              THEN /\ flow_result' = FlowResult("form", "cannot_connect", host, resp)
                   /\ UNCHANGED config_entries
              ELSE IF UniqueIdConfigured(r.data.unique_id)
              THEN /\ flow_result' = FlowResult("abort", "already_configured", host, resp)
                   /\ UNCHANGED config_entries
              ELSE /\ flow_result' = FlowResult("create_entry", "none", host, resp)
                   /\ config_entries' =
                         Append(config_entries,
                                [unique_id |-> r.data.unique_id,
                                 title |-> r.data.title, host |-> host])
    /\ UNCHANGED <<pc, data, last_update_success, last_exception, response, registry,
                   entities, fetching, scheduled, polled, read, options,
                   update_interval>>

\* async_step_user without user input, line 121: the empty form
ShowUserForm ==
    /\ Len(config_entries) < MaxEntries
    /\ flow_result' = FlowResult("form", "none", <<>>, NoResponse)
    /\ UNCHANGED <<pc, data, last_update_success, last_exception, response, registry,
                   entities, fetching, scheduled, polled, read, options,
                   update_interval, config_entries>>

NextFlow ==
    \/ ShowUserForm
    \/ async_step_user

SpecFlow == Init /\ [][NextFlow]_vars


(***************************************************************************)
(* Reading the sensors.  The coordinator is loaded and holds a payload the *)
(* fetch accepted; the host reads the state of one sensor.  The payloads   *)
(* are drawn so that the sensor's field carries every raw reading up to    *)
(* the bounds, or is missing, or the rtd member is not an object.          *)
(***************************************************************************)
StringsOver(alphabet, n) == UNION {[1..k -> alphabet] : k \in 0..n}

ReadingChars == {"7", "2", "5", ".", "-", " "}
TrendChars == {"0", "1", "2", "6", "7", "-", ".", " "}

NonStrings ==
    {JNull, JInt(0), JInt(20), JInt(0 - 60), JInt(72), JFloat(725, 1), JBigInt,
     JBool(TRUE), JList({}), JObject(EmptyMap)}

RawReadings == {JStr(s) : s \in StringsOver(ReadingChars, MaxStrLen)} \cup NonStrings
TrendReadings == {JStr(s) : s \in StringsOver(TrendChars, MaxStrLen)} \cup NonStrings

S(text) == JStr(text)
DateInputs ==
    {None, JNull, JInt(0), JInt(2024), JList({"x"}), S(<<>>), DateGood,
     S(<<"2", "0", "2", "4", "/", "3", "/", "5">>),
     S(<<"2", "0", "2", "4", "-", "0", "3", "-", "0", "5">>),
     S(<<"2", "4", "/", "0", "3", "/", "0", "5">>),
     S(<<"2", "0", "2", "4", "/", "1", "3", "/", "0", "5">>),
     S(<<"2", "0", "2", "3", "/", "0", "2", "/", "2", "9">>),
     S(<<"2", "0", "2", "4", "/", "0", "2", "/", "2", "9">>),
     S(<<"0", "0", "0", "0", "/", "0", "3", "/", "0", "5">>),
     S(<<"2", "0", "2", "4", "/", "0", "3", "/", "0", "5", " ">>),
     S(<<" ", "2", "0", "2", "4", "/", "0", "3", "/", "0", "5">>)}
TimeInputs ==
    {None, JNull, JInt(0), JBool(TRUE), S(<<>>), TimeGood,
     S(<<"1", ":", "3", ":", "0">>),
     S(<<"1", "4", ":", "3", "0">>),
     S(<<"2", "4", ":", "0", "0", ":", "0", "0">>),
     S(<<"1", "4", ":", "3", "0", ":", "6", "0">>),
     S(<<"1", "4", ".", "3", "0", ".", "0", "0">>),
     S(<<"1", "4", ":", "3", "0", ":", "0", "0", " ">>),
     S(<<" ", "1", "4", ":", "3", "0", ":", "0", "0">>)}

Member(k, v) == IF v = None THEN EmptyMap ELSE (k :> v)

NonObjectRtds(key) == {JNull, JInt(5), JList({}), JList({key}), JText({key})}

RtdsFor(sensor) ==
    CASE sensor = SENSOR_KEY_BARO_TREND ->
            {JObject(Member("bartr", v)) : v \in TrendReadings \cup {None}}
            \cup NonObjectRtds("bartr")
      [] sensor = SENSOR_KEY_LAST_UPDATE ->
            {JObject(Member("date", d) @@ Member("time", tm)) :
                d \in DateInputs, tm \in TimeInputs}
            \cup NonObjectRtds("date")
      [] OTHER ->
            {JObject(Member(sensor, v)) : v \in RawReadings \cup {None}}
            \cup {JObject("bartr" :> JStr(<<"2", "0">>))}
            \cup NonObjectRtds(sensor)

Ok200(body) == [kind |-> "http", status |-> 200, body |-> body]

InitProj ==
    /\ pc = "loaded"
    /\ polled \in Sensors
    /\ \E rtd \in RtdsFor(polled) :
          LET resp == Ok200(JObject("rtd" :> rtd @@ "info" :> InfoF))
          IN  /\ UpdateData(resp).ok
              /\ response = resp
              /\ data = UpdateData(resp).data
    /\ last_update_success = TRUE
    /\ last_exception = "none"
    /\ registry = TRUE
    /\ entities = Sensors
    /\ fetching = FALSE
    /\ scheduled = TRUE
    /\ read = NotRead
    /\ options = EmptyMap
    /\ update_interval = DEFAULT_SCAN_INTERVAL
    /\ config_entries = <<>>
    /\ flow_result = NoFlow

\* the host reads the state of a descriptor-table sensor
ReadStandard ==
    /\ polled \in StandardKeys
    /\ read' = StandardNativeValue(polled)
    /\ UNCHANGED <<pc, data, last_update_success, last_exception, response, registry,
                   entities, fetching, scheduled, polled,
                   options, update_interval, flowvars>>

ReadBaroTrend ==
    /\ polled = SENSOR_KEY_BARO_TREND
    /\ read' = BaroTrendNativeValue
    /\ UNCHANGED <<pc, data, last_update_success, last_exception, response, registry,
                   entities, fetching, scheduled, polled,
                   options, update_interval, flowvars>>

ReadLastUpdate ==
    /\ polled = SENSOR_KEY_LAST_UPDATE
    /\ read' = LastUpdateNativeValue
    /\ UNCHANGED <<pc, data, last_update_success, last_exception, response, registry,
                   entities, fetching, scheduled, polled,
                   options, update_interval, flowvars>>

NextProj ==
    \/ ReadStandard
    \/ ReadBaroTrend
    \/ ReadLastUpdate

SpecProj == InitProj /\ [][NextProj]_vars


(***************************************************************************)
(* Properties of the fetch and of the refresh protocol (Spec).             *)
(***************************************************************************)
HasBothGroups(payload) ==
    payload.t = "object" /\ {"rtd", "info"} \subseteq DOMAIN payload.m

\* the response decoded to JSON that lacks `rtd` or lacks `info`
LacksGroup(resp) ==
    /\ resp.kind = "http"
    /\ resp.body # InvalidJson
    /\ ~HasBothGroups(resp.body)

\* a fetch ends in this step (an unload, too, clears `fetching`)
FetchEnds == fetching /\ ~fetching' /\ pc' # "not_loaded"

\* C1: a response whose decoded JSON lacks `rtd` or `info` makes the fetch
\* fail with UpdateFailed and leaves the cached payload as it was; the
\* cached payload is always None or holds both `rtd` and `info`.
C1_MissingGroupsRejected ==
    /\ [](data = None \/ HasBothGroups(data))
    /\ [][(FetchEnds /\ LacksGroup(response'))
            => /\ data' = data
               /\ ~last_update_success'
               /\ last_exception' = "UpdateFailed"]_vars

C1_Witness ==
    /\ data # None
    /\ LacksGroup(response)
    /\ response.status = 200
    /\ response.body.t = "object"
    /\ last_exception = "UpdateFailed"

\* C2: a 401 answer leaves the fetch as the authentication error
\* ConfigEntryAuthFailed, not as the generic UpdateFailed.
C2_AuthFailureDistinguished ==
    (response.kind = "http" /\ response.status = 401)
        => last_exception = "ConfigEntryAuthFailed"

\* C3 as stated: once a payload is cached, a failing periodic refresh
\* leaves every sensor available with the value it reported.
C3_SensorsSurviveFailure ==
    [][(pc = "loaded" /\ FetchEnds /\ ~last_update_success' /\ data # None)
         => /\ available'
            /\ last_update_success =>
                  \A s \in entities : NativeValue(s)' = NativeValue(s)]_vars

\* C3 amended: a failing periodic refresh keeps the cached payload but every
\* sensor is unavailable (value None) while the last refresh has failed; the
\* sensors are available again as soon as a refresh succeeds, and report
\* None whenever no payload is cached.
C3_StaleMeansUnavailable ==
    /\ []((~last_update_success \/ data = None)
            => ~available /\ \A s \in Sensors : NativeValue(s) = None)
    /\ [][(pc = "loaded" /\ FetchEnds /\ ~last_update_success') => data' = data]_vars
    /\ [][(pc = "loaded" /\ FetchEnds /\ last_update_success') => available']_vars

C3_Witness ==
    /\ pc = "loaded"
    /\ ~last_update_success
    /\ data # None
    /\ Get(data, "rtd", None) = RtdFull
    /\ StandardNativeValue("tempout") = None
    /\ BaroTrendNativeValue = None

\* C4: setup goes on only after a first refresh that succeeded: a failed
\* first refresh aborts setup with no registration and no entities, and
\* entities exist only with a payload cached by a successful first refresh.
C4_FirstRefreshGatesSetup ==
    /\ []((registry \/ entities # {} \/ pc \in {"forward", "loaded"}) => data # None)
    /\ [](pc \in {"first_refresh", "setup_retry"}
            => ~registry /\ entities = {} /\ ~scheduled)
    /\ [][(pc = "first_refresh" /\ FetchEnds /\ ~last_update_success')
            => pc' = "setup_retry" /\ ~registry' /\ entities' = {}]_vars

C4_Witness ==
    /\ pc = "setup_retry"
    /\ response.kind = "http"
    /\ response.status = 401
    /\ ~registry
    /\ entities = {}

\* a failure other than HTTP 401: connect, timeout, other status, bad body
TransientFailure(resp) ==
    \/ resp.kind \in {"connect_error", "client_error", "timeout"}
    \/ resp.kind = "http" /\ resp.status >= 400 /\ resp.status # 401
    \/ resp.kind = "http" /\ resp.status < 400 /\ resp.body = InvalidJson

\* C6: a periodic refresh that fails by connect error, timeout, HTTP status
\* other than 401 or unparsable body leaves the cached payload as it was and
\* the timer armed, so the next tick can fetch; a refresh that then succeeds
\* replaces the payload by the body received.
C6_TransientFailureKeepsPayload ==
    /\ [][(pc = "loaded" /\ FetchEnds /\ TransientFailure(response'))
            => /\ data' = data
               /\ ~last_update_success'
               /\ scheduled']_vars
    /\ []((pc = "loaded" /\ ~fetching /\ ~last_update_success) => ENABLED Tick)
    /\ [][(pc = "loaded" /\ FetchEnds /\ last_update_success')
            => data' = response'.body /\ scheduled']_vars

C6_Witness ==
    /\ pc = "loaded"
    /\ data # None
    /\ ~last_update_success
    /\ TransientFailure(response)
    /\ response.kind = "http"
    /\ response.status = 500
    /\ response.body # data
    /\ HasBothGroups(response.body)
    /\ scheduled


(***************************************************************************)
(* Properties of the projections (SpecProj).                               *)
(***************************************************************************)
\* the rtd group of the cached payload, when it is an object
RtdIsObject == data # None /\ Contains(data, "rtd") = "yes" /\ data.m["rtd"].t = "object"
Rtd == data.m["rtd"].m

IsBlank(s) == \A i \in 1..Len(s) : s[i] = " "

\* s is "---" with blanks before and after
IsDashes(s) ==
    \E a \in 0..Len(s) :
        /\ a + 3 <= Len(s)
        /\ \A i \in 1..Len(s) :
              s[i] = (IF i > a /\ i <= a + 3 THEN "-" ELSE " ")

\* the raw value of the field is missing, null, "---" or blank
NoReading(key) ==
    \/ key \notin DOMAIN Rtd
    \/ Rtd[key] = JNull
    \/ Rtd[key].t = "str" /\ (IsBlank(Rtd[key].s) \/ IsDashes(Rtd[key].s))

\* C7: a descriptor-table sensor whose raw value is missing, null, "---" or
\* blank after trimming projects to None.
C7_PlaceholderProjectsToNone ==
    (polled \in StandardKeys /\ read # NotRead /\ RtdIsObject /\ NoReading(polled))
        => read = None

C7_Witness ==
    /\ polled = "winddir"
    /\ RtdIsObject
    /\ polled \in DOMAIN Rtd
    /\ Rtd[polled] = JStr(<<" ", "-", "-", "-">>)
    /\ read = None

\* the descriptors the claim has coerced to a number
NumericDescriptor(key) ==
    \/ SENSOR_TYPES[key].device_class \in
          {"temperature", "humidity", "pressure", "wind_speed", "precipitation",
           "precipitation_intensity", "irradiance"}
    \/ SENSOR_TYPES[key].unit = "DEGREE" /\ SENSOR_TYPES[key].device_class = "None"
    \/ key = "uv"

\* C8: for a numeric descriptor a raw value that is no placeholder projects
\* to its numeric value ("72.5" to 72.5), a raw value that cannot be
\* converted projects to None and nothing is raised; for any other
\* descriptor the raw value is returned unchanged.
C8_NumericCoercion ==
    (polled \in StandardKeys /\ read # NotRead /\ RtdIsObject /\ ~NoReading(polled))
        => /\ read.t # "raise"
           /\ Rtd[polled] = TempoutGood => read = JFloat(725, 1)
           /\ IF NumericDescriptor(polled)
              THEN read = (IF Float(Rtd[polled]).ok THEN Float(Rtd[polled]).v ELSE None)
              ELSE read = Rtd[polled]

\* the raw value is a number, or a string that reads as one
IsNumeric(value) ==
    \/ value.t \in {"int", "float", "bigint", "bool"}
    \/ value.t = "str" /\ FloatOfString(value.s).ok

TrendTable ==
    (0 - 60) :> "Falling Rapidly" @@ (0 - 20) :> "Falling Slowly" @@ 0 :> "Steady"
    @@ 20 :> "Rising Slowly" @@ 60 :> "Rising Rapidly"

ExpectedTrend(value) ==
    IF ~IsNumeric(value) THEN Label("Unknown")
    ELSE IF \E c \in DOMAIN TrendTable : Float(value).ok /\ Float(value).v = JFloat(c, 0)
         THEN Label(TrendTable[CHOOSE c \in DOMAIN TrendTable : Float(value).v = JFloat(c, 0)])
         ELSE Label("---")

\* C9: Barometer Trend maps the numeric value of `bartr` by exact match
\* (-60, -20, 0, 20, 60), gives "---" for every other numeric value, None
\* when `bartr` is missing and "Unknown" when it is present but not numeric.
C9_TrendDecoding ==
    (polled = SENSOR_KEY_BARO_TREND /\ read # NotRead /\ RtdIsObject)
        => read = (IF "bartr" \notin DOMAIN Rtd THEN None ELSE ExpectedTrend(Rtd["bartr"]))

\* the dates and times of the inputs that read in the format, with the
\* fields Python's strptime gives for them
GoodDates ==
       DateGood :> <<2024, 3, 5>>
    @@ S(<<"2", "0", "2", "4", "/", "3", "/", "5">>) :> <<2024, 3, 5>>
    @@ S(<<"2", "0", "2", "4", "/", "0", "2", "/", "2", "9">>) :> <<2024, 2, 29>>
    @@ S(<<"2", "0", "2", "4", "/", "0", "3", "/", "0", "5", " ">>) :> <<2024, 3, 5>>
GoodTimes ==
       TimeGood :> <<14, 30, 0>>
    @@ S(<<"1", ":", "3", ":", "0">>) :> <<1, 3, 0>>
    @@ S(<<" ", "1", "4", ":", "3", "0", ":", "0", "0">>) :> <<14, 30, 0>>

ExpectedLastUpdate ==
    LET d == Get(data.m["rtd"], "date", None)
        tm == Get(data.m["rtd"], "time", None)
    IN  IF d \in DOMAIN GoodDates /\ tm \in DOMAIN GoodTimes
        THEN DateTime(GoodDates[d][1], GoodDates[d][2], GoodDates[d][3],
                      GoodTimes[tm][1], GoodTimes[tm][2], GoodTimes[tm][3])
        ELSE None

\* C10: Last Update projects to the timestamp composed from `date` and
\* `time` exactly when both are present and read in the format
\* YYYY/MM/DD HH:MM:SS, and to None when either is missing, empty or
\* unparsable.
C10_LastUpdateComposition ==
    (polled = SENSOR_KEY_LAST_UPDATE /\ read # NotRead /\ RtdIsObject)
        => read = ExpectedLastUpdate

C10_Witness ==
    /\ polled = SENSOR_KEY_LAST_UPDATE
    /\ RtdIsObject
    /\ Get(data.m["rtd"], "date", None) = DateGood
    /\ Get(data.m["rtd"], "time", None) = TimeGood
    /\ read = DateTime(2024, 3, 5, 14, 30, 0)


(***************************************************************************)
(* Properties of availability and of the units (Spec).                     *)
(***************************************************************************)
\* C11: whenever the cached payload is None or holds no `rtd` group, every
\* sensor of the loaded entry is unavailable and its value is None.
C11_NoRtdGroupMeansUnavailable ==
    (pc = "loaded" /\ ~RtdIsObject)
        => /\ ~available
           /\ \A sensor \in entities : NativeValue(sensor) = None

\* the unit the descriptor table fixes for a device class
FixedUnit ==
       "temperature" :> "FAHRENHEIT"
    @@ "wind_speed" :> "MILES_PER_HOUR"
    @@ "pressure" :> "INHG"
    @@ "precipitation" :> "INCHES"

\* this step replaces the payload by one with the same `rtd` and another
\* `info`, the coordinator healthy before and after
OnlyInfoChanges ==
    /\ data # None /\ data' # None
    /\ HasBothGroups(data) /\ HasBothGroups(data')
    /\ data.m["rtd"] = data'.m["rtd"]
    /\ data.m["info"] # data'.m["info"]
    /\ last_update_success /\ last_update_success'

\* C12: two payloads with the same `rtd` that differ in the `info` unit
\* codes give every sensor the same value, and every sensor's unit is the
\* fixed one of the descriptor table whatever `info` says.
C12_IndependentOfDeviceUnits ==
    /\ [](\A key \in StandardKeys :
            /\ NativeUnit(key) \in {SENSOR_TYPES[key].unit, "INCHES_PER_HOUR"}
            /\ DeviceClass(key) \in DOMAIN FixedUnit
                  => NativeUnit(key) = FixedUnit[DeviceClass(key)])
    /\ [][OnlyInfoChanges
            => \A sensor \in Sensors : NativeValue(sensor)' = NativeValue(sensor)]_vars

C12_Witness ==
    /\ pc = "loaded"
    /\ last_update_success
    /\ RtdIsObject
    /\ data.m["rtd"] = RtdFull
    /\ data.m["info"] = InfoC
    /\ NativeValue("tempout") = JFloat(725, 1)
    /\ NativeUnit("tempout") = "FAHRENHEIT"


(***************************************************************************)
(* Properties of what the fetch accepts and of what reading it raises.     *)
(***************************************************************************)
\* a JSON object whose `rtd` or `info` member is present and no object
GroupNotObject(body) ==
    /\ body.t = "object"
    /\ \E group \in {"rtd", "info"} :
          group \in DOMAIN body.m /\ body.m[group].t # "object"

\* C14: the cached payload is always None or a JSON object whose `rtd` and
\* `info` members are both objects; a response in which `rtd` or `info` is
\* present but no object fails the fetch with UpdateFailed and is not cached.
C14_OnlyObjectGroupsAccepted ==
    /\ [](data # None
            => /\ HasBothGroups(data)
               /\ data.m["rtd"].t = "object"
               /\ data.m["info"].t = "object")
    /\ [][(FetchEnds /\ response'.kind = "http" /\ response'.status = 200
             /\ GroupNotObject(response'.body))
            => /\ data' = data
               /\ ~last_update_success'
               /\ last_exception' = "UpdateFailed"]_vars

\* C15: reading a sensor on a payload the fetch accepted never raises; it
\* gives a value, a fallback label or None.
C15_ReadNeverRaises ==
    read # NotRead => read.t # "raise"


(***************************************************************************)
(* Properties of the options and of the registry (Spec).                   *)
(***************************************************************************)
\* C13: the coordinator of a loaded entry polls every 60 seconds when no
\* option is stored and otherwise at the scan interval saved last, and a
\* saved scan interval lies within [10, 3600].
C13_IntervalFollowsOptions ==
    /\ pc = "loaded"
          => update_interval =
                (IF options = EmptyMap THEN 60 ELSE options[CONF_SCAN_INTERVAL])
    /\ options # EmptyMap
          => options[CONF_SCAN_INTERVAL] \in 10..3600

\* async_setup_entry has returned True and no unload has succeeded since
SetUp == pc \in {"loaded", "failed_unload"}

\* C18: outside async_setup_entry, the registry holds the coordinator of the
\* entry exactly when setup completed and no unload has succeeded since: a
\* failed first refresh or platform forward leaves no registration, a
\* successful unload removes it, an unsuccessful unload leaves it.
C18_RegistryMatchesSetup ==
    pc \notin {"first_refresh", "forward"} => (registry <=> SetUp)


(***************************************************************************)
(* Properties of the config flow (SpecFlow).                               *)
(***************************************************************************)
\* the validation request failed: connection, timeout, HTTP status or parse
FlowFailure(resp) ==
    \/ resp.kind \in {"connect_error", "client_error", "timeout"}
    \/ resp.kind = "http" /\ resp.status >= 400
    \/ resp.kind = "http" /\ resp.body = InvalidJson

\* info.wid of a JSON object body, Absent when there is none
WidOf(body) ==
    IF "info" \in DOMAIN body.m /\ body.m["info"].t = "object"
    THEN Get(body.m["info"], "wid", Absent)
    ELSE Absent

\* the unique id of the device: info.wid when it is a non-empty string,
\* vantage_weather_<host> when wid is absent, null or empty
DeviceUniqueId(host, body) ==
    IF WidOf(body) \in {Absent, JNull, JStr(<<>>)}
    THEN HostUniqueId(host)
    ELSE WidOf(body).s

StringOrNoWid(body) ==
    /\ body.t = "object"
    /\ WidOf(body) \in {Absent, JNull} \/ WidOf(body).t = "str"

NewEntry == config_entries'[Len(config_entries')]

\* C17: the user step creates an entry only after a validation request that
\* succeeded and for a unique id no entry has yet; a failed request re-shows
\* the form with `cannot_connect` and creates nothing; a unique id already
\* configured aborts the flow; no two entries share a unique id.
C17_EntryOnlyForNewValidDevice ==
    /\ [](\A i, j \in DOMAIN config_entries :
            i # j => config_entries[i].unique_id # config_entries[j].unique_id)
    /\ []((flow_result.type # "none" /\ FlowFailure(flow_result.response))
            => flow_result.type = "form" /\ flow_result.reason = "cannot_connect")
    /\ []((flow_result.type = "abort" /\ StringOrNoWid(flow_result.response.body))
            => UniqueIdConfigured(DeviceUniqueId(flow_result.host,
                                                 flow_result.response.body)))
    /\ [][flow_result'.type \in {"form", "abort"} => UNCHANGED config_entries]_vars
    /\ [][config_entries' # config_entries
            => /\ flow_result'.type = "create_entry"
               /\ flow_result'.response.kind = "http"
               /\ flow_result'.response.status = 200
               /\ flow_result'.response.body # InvalidJson
               /\ config_entries' = Append(config_entries, NewEntry)
               /\ ~UniqueIdConfigured(NewEntry.unique_id)
               /\ StringOrNoWid(flow_result'.response.body)
                    => NewEntry.unique_id =
                          DeviceUniqueId(flow_result'.host,
                                         flow_result'.response.body)]_vars

C17_Witness ==
    /\ Len(config_entries) = 2
    /\ config_entries[1].unique_id = HostUniqueId(<<"h", "1">>)
    /\ config_entries[2].unique_id = <<"A">>
    /\ flow_result.type = "abort"
    /\ flow_result.host = <<"h", "2">>
    /\ WidOf(flow_result.response.body) = JStr(HostUniqueId(<<"h", "1">>))


====
